---- MODULE Spec2Model ----
(***************************************************************************)
(* The "result" command of sebak-hot-body (cmd/result.go): loadLine        *)
(* decodes one line of the result log, runResult reads the log line by     *)
(* line, aggregates the payment records and builds the report.             *)
(*                                                                         *)
(* Durations are counted in units of 10^10 ns (the unit the report itself  *)
(* divides by), timestamps in seconds after 2019-01-01T00:00:00Z, with 0   *)
(* standing for the zero value of time.Time.                               *)
(***************************************************************************)
EXTENDS Integers, Sequences, FiniteSets, TLC

\* Number of lines of the log that are read, the first line included.
MaxLines == 3

\* var step float64 = 50000000000 (ns), i.e. 5 units of 10^10 ns.
Step == 5

\* The zero value of time.Time, the value of started and ended before any
\* control line, and the result of a failed common.ParseISO8601.
ZeroTime == 0

VARIABLES
  pc,              \* position in runResult
  fileOpen,        \* resultOutput is open
  deferred,        \* the deferred calls of runResult
  started,         \* package variable started
  ended,           \* package variable ended
  config,          \* var config hotbody.HotterConfig
  headLine,        \* headLine := sc.Text()
  s,               \* s := sc.Text() of the current loop iteration
  records,         \* var records []hotbody.Record
  sebakErrors,     \* sebakErrors := map[int]int{}
  nread,           \* number of lines the scanner has handed out
  scErr,           \* sc.Err() != nil
  agg,             \* els, countError, errorTypes, maxElapsedTime, minElapsedTime
  k,               \* number of records the aggregation loop has visited
  elsKeys,         \* var elsKeys sort.IntSlice
  Row,             \* var Row = [][]string{}
  totalSeconds,    \* totalSeconds := lastTime.Sub(started).Seconds()
  stdout,          \* what was written to os.Stdout
  stderr,          \* what printError reported
  status           \* exit status of the process, -1 while it runs

vars == <<pc, fileOpen, deferred, started, ended, config, headLine, s, records,
          sebakErrors, nread, scErr, agg, k, elsKeys, Row, totalSeconds,
          stdout, stderr, status>>

(***************************************************************************)
(* JSON values as encoding/json decodes them into interface{}.             *)
(***************************************************************************)
EmptyMap == [x \in {} |-> 0]
JNull == [tag |-> "null"]
JNum(n) == [tag |-> "number", n |-> n]
JStr(str) == [tag |-> "string", s |-> str]
JObj(m) == [tag |-> "object", m |-> m]

\* _, found := m[key]
Has(m, key) == key \in DOMAIN m

\* m[key]++ on a Go map: a missing key counts from zero.
Inc(m, key) ==
  IF key \in DOMAIN m THEN [m EXCEPT ![key] = @ + 1] ELSE m @@ (key :> 1)

(***************************************************************************)
(* The lines a log is made of.  A line is either text that is not a JSON   *)
(* object, or the object d that json.Unmarshal decodes it into.            *)
(***************************************************************************)
NoLine == [json |-> "none"]
Invalid(text) == [json |-> "invalid", text |-> text]
Object(d) == [json |-> "object", d |-> d]

T1 == "2019-01-01T00:00:01Z"
T2 == "2019-01-01T00:00:02Z"
TimeTexts == {T1, T2}

\* common.ParseISO8601: the time and whether parsing failed.
ParseISO8601(text) ==
  CASE text = T1 -> [t |-> 1, err |-> FALSE]
    [] text = T2 -> [t |-> 2, err |-> FALSE]
    [] OTHER -> [t |-> ZeroTime, err |-> TRUE]

LongAddress == "GDIRF4UWPACXPPI4GW7CMTACTCNDIKJEHZK44RITZB4TD3YUM6CCVNGJ"

\* len(s) of the addresses that occur
AddrLen(a) == IF a = LongAddress THEN 56 ELSE 0

ConfigObject ==
  JObj([operations |-> JNum(2), initAccount |-> JStr(LongAddress),
        nodeAddress |-> JStr(LongAddress), blockHash |-> JStr(LongAddress)])

MalformedLines ==
  { Invalid(""), Invalid("{\"type\":\"payment\""),
    Object(EmptyMap),
    Object([type |-> JNum(7)]),
    Object([type |-> JStr("transfer")]) }

ControlLines ==
  { Object([type |-> JStr(c), time |-> JStr(t)]) :
      c \in {"started", "ended"}, t \in TimeTexts }
  \cup { Object([type |-> JStr("started"), time |-> JStr("yesterday")]),
         Object([type |-> JStr("started")]),
         Object([type |-> JStr("ended"), time |-> JNum(7)]) }

\* Config objects in which one of the addresses is missing.
PartialConfigObjects ==
  { JObj([operations |-> JNum(2), initAccount |-> JStr(LongAddress),
          blockHash |-> JStr(LongAddress)]),
    JObj([operations |-> JNum(2), initAccount |-> JStr(LongAddress),
          nodeAddress |-> JStr(LongAddress)]) }

ConfigLines ==
  { Object([type |-> JStr("config"), config |-> c]) :
      c \in {ConfigObject, JNull} \cup PartialConfigObjects }
  \cup
  { Object([type |-> JStr("config")]),
    Object([type |-> JStr("config"), config |-> JStr("x")]) }

CreateAccountsLines ==
  { Object([type |-> JStr("create-accounts"), time |-> JStr(T1), elapsed |-> JNum(1)]),
    Object([type |-> JStr("create-accounts"), time |-> JStr(T1), elapsed |-> JStr("x")]) }

Elapsed == {0, Step + 2, 2 * Step}
ErrorTypes == {"timeout", "refused"}

PaymentLines ==
  { Object([type |-> JStr("payment"), time |-> JStr(t), elapsed |-> JNum(e)]) :
      t \in TimeTexts, e \in Elapsed }
  \cup { Object([type |-> JStr("payment"), time |-> JStr(t), elapsed |-> JNum(e),
                 error |-> JObj([message |-> JStr(et)]), errorType |-> JStr(et)]) :
           t \in TimeTexts, e \in Elapsed, et \in ErrorTypes }
  \cup { Object([type |-> JStr("payment"), elapsed |-> JNum(0)]),
         Object([type |-> JStr("payment"), time |-> JStr(T1), elapsed |-> JStr("x")]) }

\* The texts found in data.body of a raw error.
BodyTexts ==
  { "{\"code\":702}", "{\"code\":703}", "{\"title\":\"x\"}", "{\"code\":",
    "[702]", "{\"code\":\"702\"}" }

\* json.Unmarshal([]byte(j), &body) into a nil map[string]interface{}: on an
\* error the map stays nil.
UnmarshalBody(j) ==
  CASE j = "{\"code\":702}" -> [code |-> JNum(702)]
    [] j = "{\"code\":703}" -> [code |-> JNum(703)]
    [] j = "{\"title\":\"x\"}" -> [title |-> JStr("x")]
    [] j = "{\"code\":\"702\"}" -> [code |-> JStr("702")]
    [] OTHER -> EmptyMap

RawErrors ==
  { [message |-> JStr("x")],
    [data |-> JStr("x")],
    [data |-> JObj(EmptyMap)],
    [data |-> JObj([body |-> JNum(7)])] }
  \cup { [data |-> JObj([body |-> JStr(j)])] : j \in BodyTexts }

SEBAKErrorLines ==
  { Object([type |-> JStr("sebak-error"), time |-> JStr(T1), error |-> JObj(e)]) :
      e \in RawErrors }
  \cup { Object([type |-> JStr("sebak-error"), time |-> JStr(T1)]),
         Object([type |-> JStr("sebak-error"), time |-> JStr(T1), error |-> JStr("x")]) }

Lines ==
  MalformedLines \cup ControlLines \cup ConfigLines \cup CreateAccountsLines
    \cup PaymentLines \cup SEBAKErrorLines

(***************************************************************************)
(* hotbody records.                                                        *)
(***************************************************************************)
NilRecord == [type |-> "nil"]

\* The zero value of hotbody.HotterConfig.
ZeroConfig ==
  [type |-> "config", Operations |-> 0, InitAccount |-> "", NodeAddress |-> "",
   BlockHash |-> ""]

GetType(r) == r.type
GetElapsed(r) == r.elapsed
GetTime(r) == r.time
GetError(r) == r.error
GetErrorType(r) == r.errorType
GetRawError(r) == r.rawError

\* A field of a JSON object decoded into a struct field of the given JSON
\* type: a missing key or a null leaves the zero value, another type is an
\* error.
Present(m, key) == Has(m, key) /\ m[key].tag # "null"
FieldOK(m, key, tag) == Present(m, key) => m[key].tag = tag
NumField(m, key) == IF Present(m, key) THEN m[key].n ELSE 0
StrField(m, key) == IF Present(m, key) THEN m[key].s ELSE ""

\* A timestamp field decoded into time.Time.
TimeOK(m) ==
  /\ FieldOK(m, "time", "string")
  /\ Present(m, "time") => ~ParseISO8601(m.time.s).err
TimeField(m) == IF Present(m, "time") THEN ParseISO8601(m.time.s).t ELSE ZeroTime

\* json.Unmarshal(b, &hotterConfig), b the re-serialized d["config"]: a
\* missing key and a null both serialize to "null", which leaves the zero
\* value.
DecodeConfig(d) ==
  IF ~Present(d, "config") THEN [err |-> FALSE, record |-> ZeroConfig]
  ELSE IF d.config.tag # "object" THEN [err |-> TRUE, record |-> NilRecord]
  ELSE LET c == d.config.m IN
    IF /\ FieldOK(c, "operations", "number") /\ FieldOK(c, "initAccount", "string")
       /\ FieldOK(c, "nodeAddress", "string") /\ FieldOK(c, "blockHash", "string")
    THEN [err |-> FALSE,
          record |-> [type |-> "config", Operations |-> NumField(c, "operations"),
                      InitAccount |-> StrField(c, "initAccount"),
                      NodeAddress |-> StrField(c, "nodeAddress"),
                      BlockHash |-> StrField(c, "blockHash")]]
    ELSE [err |-> TRUE, record |-> NilRecord]

\* json.Unmarshal([]byte(l), &createAccounts)
DecodeCreateAccounts(d) ==
  IF TimeOK(d) /\ FieldOK(d, "elapsed", "number")
  THEN [err |-> FALSE,
        record |-> [type |-> "create-accounts", time |-> TimeField(d),
                    elapsed |-> NumField(d, "elapsed")]]
  ELSE [err |-> TRUE, record |-> NilRecord]

\* json.Unmarshal([]byte(l), &payment)
DecodePayment(d) ==
  IF TimeOK(d) /\ FieldOK(d, "elapsed", "number") /\ FieldOK(d, "errorType", "string")
  THEN [err |-> FALSE,
        record |-> [type |-> "payment", time |-> TimeField(d),
                    elapsed |-> NumField(d, "elapsed"),
                    error |-> IF Has(d, "error") THEN d.error ELSE JNull,
                    errorType |-> StrField(d, "errorType")]]
  ELSE [err |-> TRUE, record |-> NilRecord]

\* json.Unmarshal([]byte(l), &sebakError)
DecodeSEBAKError(d) ==
  IF TimeOK(d) /\ FieldOK(d, "error", "object")
  THEN [err |-> FALSE,
        record |-> [type |-> "sebak-error", time |-> TimeField(d),
                    rawError |-> IF Present(d, "error") THEN d.error.m ELSE EmptyMap]]
  ELSE [err |-> TRUE, record |-> NilRecord]

(***************************************************************************)
(* loadLine: the record, whether an error is returned, whether the call    *)
(* panics, and the values of started and ended after it.                   *)
(***************************************************************************)
Loaded(record, st, en) ==
  [record |-> record, err |-> FALSE, panic |-> FALSE, started |-> st, ended |-> en]
LoadError(st, en) ==
  [record |-> NilRecord, err |-> TRUE, panic |-> FALSE, started |-> st, ended |-> en]
LoadPanic(st, en) ==
  [record |-> NilRecord, err |-> FALSE, panic |-> TRUE, started |-> st, ended |-> en]
Decoded(r, st, en) ==
  IF r.err THEN LoadError(st, en) ELSE Loaded(r.record, st, en)

\* d["time"].(string) of a control line
ControlTimeOK(d) == Has(d, "time") /\ d.time.tag = "string"

\* Variant of UnknownType: an unknown type is skipped like a control line.
UnknownTypeSkipped(st, en) == Loaded(NilRecord, st, en)

\* default: err = fmt.Errorf("unknown type found: %v", recordType)
UnknownType(st, en) == LoadError(st, en)

loadLine(l, st, en) ==
  IF l.json # "object" THEN LoadError(st, en)
  ELSE LET d == l.d IN
    IF ~Has(d, "type") THEN LoadError(st, en)
    ELSE IF d.type.tag # "string" THEN LoadPanic(st, en)
    ELSE LET recordType == d.type.s IN
      CASE recordType = "started" ->
             IF ControlTimeOK(d)
             THEN Loaded(NilRecord, ParseISO8601(d.time.s).t, en)
             ELSE LoadPanic(st, en)
        [] recordType = "ended" ->
             IF ControlTimeOK(d)
             THEN Loaded(NilRecord, st, ParseISO8601(d.time.s).t)
             ELSE LoadPanic(st, en)
        [] recordType = "config" -> Decoded(DecodeConfig(d), st, en)
        [] recordType = "create-accounts" -> Decoded(DecodeCreateAccounts(d), st, en)
        [] recordType = "payment" -> Decoded(DecodePayment(d), st, en)
        [] recordType = "sebak-error" -> Decoded(DecodeSEBAKError(d), st, en)
        [] OTHER -> UnknownType(st, en)

(***************************************************************************)
(* Process exit.  os.Exit ends the process at once and runs no deferred    *)
(* call; a panic unwinds runResult, runs its deferred calls and ends the   *)
(* process with status 2.                                                  *)
(***************************************************************************)
Range(q) == {q[i] : i \in DOMAIN q}

OsExit(code) ==
  /\ pc' = "exited"
  /\ status' = code
  /\ UNCHANGED <<fileOpen, deferred>>

GoPanic ==
  /\ pc' = "panicked"
  /\ status' = 2
  /\ fileOpen' = (fileOpen /\ "Close" \notin Range(deferred))
  /\ deferred' = <<>>

\* printError(resultCmd, err): report the error and exit with status 1.
printError(msg) ==
  /\ stderr' = Append(stderr, msg)
  /\ OsExit(1)

Terminal == {"exited", "panicked"}

(***************************************************************************)
(* runResult, up to the end of the read loop.                              *)
(***************************************************************************)
NoCode == [outcome |-> "none", code |-> 0]
ExtractPanic == [outcome |-> "panic", code |-> 0]

\* The nested code of a raw error: e["data"]["body"] parsed, its "code".
ExtractCode(e) ==
  IF ~Has(e, "data") THEN NoCode
  ELSE IF e.data.tag # "object" THEN ExtractPanic
  ELSE IF ~Has(e.data.m, "body") \/ e.data.m.body.tag # "string" THEN ExtractPanic
  ELSE LET body == UnmarshalBody(e.data.m.body.s) IN
    IF ~Has(body, "code") THEN NoCode
    ELSE IF body.code.tag # "number" THEN ExtractPanic
    ELSE [outcome |-> "code", code |-> body.code.n]

\* Variant of Ingest: the "continue" that ends the non-payment branch is
\* missing, so the record is appended as well.
IngestNoContinue(record, recs, errs) ==
  IF GetType(record) # "payment" /\ record.type = "sebak-error"
  THEN LET x == ExtractCode(GetRawError(record)) IN
         [panic |-> x.outcome = "panic",
          records |-> IF x.outcome = "code" THEN Append(recs, record) ELSE recs,
          sebakErrors |-> IF x.outcome = "code" THEN Inc(errs, x.code) ELSE errs]
  ELSE [panic |-> FALSE, records |-> Append(recs, record), sebakErrors |-> errs]

\* The body of the read loop for a decoded, non-nil record.
Ingest(record, recs, errs) ==
  IF GetType(record) # "payment"
  THEN IF record.type = "sebak-error"
       THEN LET x == ExtractCode(GetRawError(record)) IN
              [panic |-> x.outcome = "panic", records |-> recs,
               sebakErrors |-> IF x.outcome = "code" THEN Inc(errs, x.code) ELSE errs]
       ELSE [panic |-> FALSE, records |-> recs, sebakErrors |-> errs]
  ELSE [panic |-> FALSE, records |-> Append(recs, record), sebakErrors |-> errs]

\* Variant of HeadIsConfig: the two-valued assertion, which never panics.
HeadIsConfigCommaOk(record) == TRUE

\* config = record.(hotbody.HotterConfig): whether the assertion holds.
HeadIsConfig(record) == record.type = "config"

ZeroAgg ==
  [els |-> EmptyMap, countError |-> 0, errorTypes |-> EmptyMap,
   maxElapsedTime |-> 0, minElapsedTime |-> -1]

Init ==
  /\ pc = "start"
  /\ fileOpen = TRUE
  /\ deferred = <<>>
  /\ started = ZeroTime
  /\ ended = ZeroTime
  /\ config = ZeroConfig
  /\ headLine = NoLine
  /\ s = NoLine
  /\ records = <<>>
  /\ sebakErrors = EmptyMap
  /\ nread = 0
  /\ scErr = FALSE
  /\ agg = ZeroAgg
  /\ k = 0
  /\ elsKeys = <<>>
  /\ Row = <<>>
  /\ totalSeconds = [sat |-> "no", sec |-> 0]
  /\ stdout = <<>>
  /\ stderr = <<>>
  /\ status = -1

\* defer resultOutput.Close(); sc := bufio.NewScanner(resultOutput)
Start ==
  /\ pc = "start"
  /\ deferred' = <<"Close">>
  /\ pc' = "head"
  /\ UNCHANGED <<fileOpen, started, ended, config, headLine, s, records, sebakErrors,
                 nread, scErr, agg, k, elsKeys, Row, totalSeconds, stdout, stderr,
                 status>>

\* sc.Scan(); headLine := sc.Text(); loadLine(headLine); config = record.(...)
ReadHead ==
  /\ pc = "head"
  /\ \E l \in Lines :
       LET r == loadLine(l, started, ended) IN
         /\ headLine' = l
         /\ nread' = 1
         /\ started' = r.started
         /\ ended' = r.ended
         /\ IF r.panic
            THEN GoPanic /\ UNCHANGED <<config, stderr>>
            ELSE IF r.err
            THEN printError("something wrong to read <result log>") /\ UNCHANGED config
            ELSE IF HeadIsConfig(r.record)
            THEN /\ config' = r.record
                 /\ pc' = "loop"
                 /\ UNCHANGED <<fileOpen, deferred, stderr, status>>
            ELSE GoPanic /\ UNCHANGED <<config, stderr>>
  /\ UNCHANGED <<s, records, sebakErrors, scErr, agg, k, elsKeys, Row, totalSeconds,
                 stdout>>

\* for sc.Scan() { s := sc.Text()
Scan ==
  /\ pc = "loop"
  /\ nread < MaxLines
  /\ \E l \in Lines : s' = l
  /\ nread' = nread + 1
  /\ pc' = "line"
  /\ UNCHANGED <<fileOpen, deferred, started, ended, config, headLine, records,
                 sebakErrors, scErr, agg, k, elsKeys, Row, totalSeconds, stdout,
                 stderr, status>>

\* sc.Scan() returns false: the end of the file, or a read error.
ScanEnd ==
  /\ pc = "loop"
  /\ \E e \in BOOLEAN : scErr' = e
  /\ pc' = "loaded"
  /\ UNCHANGED <<fileOpen, deferred, started, ended, config, headLine, s, records,
                 sebakErrors, nread, agg, k, elsKeys, Row, totalSeconds, stdout,
                 stderr, status>>

\* The body of the read loop; s goes out of scope when the iteration ends.
Process ==
  /\ pc = "line"
  /\ LET r == loadLine(s, started, ended) IN
       /\ started' = r.started
       /\ ended' = r.ended
       /\ IF r.panic
          THEN GoPanic /\ UNCHANGED <<s, records, sebakErrors, stderr>>
          ELSE IF r.err
          THEN /\ printError("something wrong to read <result log>")
               /\ UNCHANGED <<s, records, sebakErrors>>
          ELSE IF r.record = NilRecord
          THEN /\ pc' = "loop"
               /\ s' = NoLine
               /\ UNCHANGED <<records, sebakErrors, fileOpen, deferred, stderr, status>>
          ELSE LET g == Ingest(r.record, records, sebakErrors) IN
               IF g.panic
               THEN GoPanic /\ UNCHANGED <<s, records, sebakErrors, stderr>>
               ELSE /\ pc' = "loop"
                    /\ s' = NoLine
                    /\ records' = g.records
                    /\ sebakErrors' = g.sebakErrors
                    /\ UNCHANGED <<fileOpen, deferred, stderr, status>>
  /\ UNCHANGED <<config, headLine, nread, scErr, agg, k, elsKeys, Row, totalSeconds,
                 stdout>>

\* len(records) < 1
NoRecords(recs) == Len(recs) < 1

\* if len(records) < 1 { Println; os.Exit(1) }; if sc.Err() != nil { printError }
CheckRecords ==
  /\ pc = "loaded"
  /\ IF NoRecords(records)
     THEN /\ stdout' = Append(stdout, "no records found")
          /\ OsExit(1)
          /\ UNCHANGED stderr
     ELSE IF scErr
     THEN /\ printError("something wrong to read <result log>")
          /\ UNCHANGED stdout
     ELSE /\ pc' = "aggregate"
          /\ UNCHANGED <<fileOpen, deferred, stdout, stderr, status>>
  /\ UNCHANGED <<started, ended, config, headLine, s, records, sebakErrors, nread,
                 scErr, agg, k, elsKeys, Row, totalSeconds>>

(***************************************************************************)
(* runResult, aggregation of the payment records.                          *)
(***************************************************************************)
\* int(x) of a float64 quotient a/b, b > 0: truncation toward zero.
IntDiv(a, b) == IF a >= 0 THEN a \div b ELSE -((-a) \div b)

\* i := int(es/step) * int(step)
Bucket(es) == IntDiv(es, Step) * Step

Max(a, b) == IF a >= b THEN a ELSE b
Min(a, b) == IF a <= b THEN a ELSE b

\* Variant of AggregateOne: the bucket and the error type are marked, not counted.
AggregateOneMarks(r, a) ==
  LET es == GetElapsed(r)
      carries == GetError(r) # JNull
  IN [els |-> (Bucket(es) :> 1) @@ a.els,
      maxElapsedTime |-> Max(a.maxElapsedTime, es),
      minElapsedTime |-> IF a.minElapsedTime < 0 THEN es ELSE Min(a.minElapsedTime, es),
      countError |-> IF carries THEN a.countError + 1 ELSE a.countError,
      errorTypes |-> IF carries THEN (GetErrorType(r) :> 1) @@ a.errorTypes
                     ELSE a.errorTypes]

\* One iteration of "for _, r := range records".
AggregateOne(r, a) ==
  LET es == GetElapsed(r)
      carries == GetError(r) # JNull
  IN [els |-> Inc(a.els, Bucket(es)),
      maxElapsedTime |-> Max(a.maxElapsedTime, es),
      minElapsedTime |-> IF a.minElapsedTime < 0 THEN es ELSE Min(a.minElapsedTime, es),
      countError |-> IF carries THEN a.countError + 1 ELSE a.countError,
      errorTypes |-> IF carries THEN Inc(a.errorTypes, GetErrorType(r)) ELSE a.errorTypes]

Aggregate ==
  /\ pc = "aggregate"
  /\ k < Len(records)
  /\ agg' = AggregateOne(records[k + 1], agg)
  /\ k' = k + 1
  /\ UNCHANGED <<pc, fileOpen, deferred, started, ended, config, headLine, s, records,
                 sebakErrors, nread, scErr, elsKeys, Row, totalSeconds, stdout,
                 stderr, status>>

\* ((maxElapsedTime/step)*step)+step in float64: the quotient is not truncated.
FillLimit(maxElapsed) == maxElapsed + Step

\* for i := float64(0); i < limit; i += step { ...; elsKeys = append(elsKeys, int(i)) }
RECURSIVE FillKeys(_, _)
FillKeys(i, limit) == IF i < limit THEN <<i>> \o FillKeys(i + Step, limit) ELSE <<>>

\* if _, ok := els[i]; !ok { els[i] = 0 }
FillEls(els, keys) ==
  [b \in DOMAIN els \cup Range(keys) |-> IF b \in DOMAIN els THEN els[b] ELSE 0]

\* sort.Sort(elsKeys), by insertion
RECURSIVE Insert(_, _)
Insert(x, q) ==
  IF q = <<>> THEN <<x>>
  ELSE IF x <= Head(q) THEN <<x>> \o q
  ELSE <<Head(q)>> \o Insert(x, Tail(q))
RECURSIVE SortInts(_)
SortInts(q) == IF q = <<>> THEN <<>> ELSE Insert(Head(q), SortInts(Tail(q)))

Fill ==
  /\ pc = "aggregate"
  /\ k = Len(records)
  /\ LET keys == FillKeys(0, FillLimit(agg.maxElapsedTime)) IN
       /\ agg' = [agg EXCEPT !.els = FillEls(agg.els, keys)]
       /\ elsKeys' = SortInts(keys)
  /\ pc' = "report"
  /\ UNCHANGED <<fileOpen, deferred, started, ended, config, headLine, s, records,
                 sebakErrors, nread, scErr, k, Row, totalSeconds, stdout, stderr,
                 status>>

(***************************************************************************)
(* runResult, the report.                                                  *)
(***************************************************************************)
\* formatAddress: s[:13] and s[len(s)-13:] need 13 characters.
FormatAddressOK(a) == AddrLen(a) >= 13

\* A time.Duration in seconds: a finite number of seconds, or one of the two
\* values time.Time.Sub saturates at, 9223372036.854775807 s (maxDuration)
\* and -9223372036.854775808 s (minDuration).
Seconds(n) == [sat |-> "no", sec |-> n]
MaxDuration == [sat |-> "max", sec |-> 0]
MinDuration == [sat |-> "min", sec |-> 0]

\* t.Sub(u): the zero time (year 1) lies more than the 292 years a Duration
\* holds before every time of the log, so a difference with exactly one zero
\* operand saturates.
Sub(t, u) ==
  IF t = u THEN Seconds(0)
  ELSE IF u = ZeroTime THEN MaxDuration
  ELSE IF t = ZeroTime THEN MinDuration
  ELSE Seconds(t - u)

\* lastTime.Sub(started).Seconds()
TotalSeconds(lastTime, st) == Sub(lastTime, st)

R(head, key) == <<head, key>>

ConfigRows ==
  << R("config", "testing time"), R("config", "concurrent requests"),
     R("config", "initial account"), R("config", "request timeout"),
     R("config", "confirm duration"), R("config", "operations"),
     R("network", "network id"), R("network", "initial balance"),
     R("network", "block time"), R("network", "base reserve"),
     R("network", "base fee"), R("node", "endpoint"), R("node", "address"),
     R("node", "state"), R("node", "block height"), R("node", "block hash"),
     R("node", "block totaltxs"), R("node", "block totalops") >>

TimeRows == << R("time", "started"), R("time", "ended"), R("time", "total elapsed") >>

ResultRows(keys) ==
  << R("result", "# requests"), R("result", "# operations"), R("result", "error rates"),
     R("result", "max elapsed time"), R("result", "min elapsed time"),
     R("result", "distribution") >>
  \o [i \in 1..Len(keys) |-> R("result", "")]
  \o << R("result", "expected OPS"), R("result", "real OPS") >>

\* The orders in which "range" may visit the keys of a map.
Orders(m) ==
  {q \in [1..Cardinality(DOMAIN m) -> DOMAIN m] : Range(q) = DOMAIN m}

ErrorRows(head, count, order) ==
  IF count < 1 THEN << R(head, "no error") >>
  ELSE [i \in 1..Len(order) |-> R(IF i = 1 THEN head ELSE "", order[i])]

\* The number of config rows appended before a formatAddress call panics
\* (lines 260, 270, 273), all of them when none does.
ConfigRowsBuilt(cfg) ==
  IF ~FormatAddressOK(cfg.InitAccount) THEN 2
  ELSE IF ~FormatAddressOK(cfg.NodeAddress) THEN 12
  ELSE IF ~FormatAddressOK(cfg.BlockHash) THEN 15
  ELSE Len(ConfigRows)

Report ==
  /\ pc = "report"
  /\ \E flagBrief \in BOOLEAN :
       IF ~flagBrief /\ ConfigRowsBuilt(config) < Len(ConfigRows)
       THEN /\ Row' = SubSeq(ConfigRows, 1, ConfigRowsBuilt(config))
            /\ GoPanic
            /\ UNCHANGED totalSeconds
       ELSE IF records = <<>>
       THEN /\ Row' = IF flagBrief THEN <<>> ELSE ConfigRows
            /\ GoPanic
            /\ UNCHANGED totalSeconds
       ELSE \E eo \in Orders(agg.errorTypes), so \in Orders(sebakErrors) :
            LET lastTime == GetTime(records[Len(records)]) IN
              /\ totalSeconds' = TotalSeconds(lastTime, started)
              /\ Row' = (IF flagBrief THEN <<>> ELSE ConfigRows \o TimeRows)
                          \o ResultRows(elsKeys)
                          \o ErrorRows("error", agg.countError, eo)
                          \o ErrorRows("sebak-error", Cardinality(DOMAIN sebakErrors), so)
              /\ pc' = "render"
              /\ UNCHANGED <<fileOpen, deferred, status>>
  /\ UNCHANGED <<started, ended, config, headLine, s, records, sebakErrors, nread,
                 scErr, agg, k, elsKeys, stdout, stderr>>

\* table.AppendBulk(Row); table.Render(); os.Exit(0)
Render ==
  /\ pc = "render"
  /\ stdout' = Append(stdout, "table")
  /\ OsExit(0)
  /\ UNCHANGED <<started, ended, config, headLine, s, records, sebakErrors, nread,
                 scErr, agg, k, elsKeys, Row, totalSeconds, stderr>>

Next ==
  \/ Start
  \/ ReadHead
  \/ Scan
  \/ ScanEnd
  \/ Process
  \/ CheckRecords
  \/ Aggregate
  \/ Fill
  \/ Report
  \/ Render

Spec == Init /\ [][Next]_vars

(***************************************************************************)
(* Properties.                                                             *)
(***************************************************************************)
IsType(l, t) ==
  /\ l.json = "object"
  /\ Has(l.d, "type")
  /\ l.d.type.tag = "string"
  /\ l.d.type.s = t

KnownTypes == {"started", "ended", "config", "create-accounts", "payment", "sebak-error"}

\* The run has ended abnormally and nothing of a report exists.
Aborted ==
  /\ pc \in Terminal
  /\ status \in {1, 2}
  /\ Row = <<>>
  /\ "table" \notin Range(stdout)
  /\ agg = ZeroAgg
  /\ k = 0

\* The raw error of a sebak-error line that decodes.
RawOf(l) == DecodeSEBAKError(l.d).record.rawError
SEBAKErrorLine(l) == IsType(l, "sebak-error") /\ ~DecodeSEBAKError(l.d).err

NoData(e) == ~Has(e, "data")
NoBody(e) == Has(e, "data") /\ e.data.tag = "object" /\ ~Has(e.data.m, "body")
StringBody(e) ==
  /\ Has(e, "data") /\ e.data.tag = "object"
  /\ Has(e.data.m, "body") /\ e.data.m.body.tag = "string"
\* data.body is not valid JSON, or the embedded JSON has no code
BodyWithoutCode(e) == StringBody(e) /\ ~Has(UnmarshalBody(e.data.m.body.s), "code")
BodyWithNumericCode(e) ==
  /\ StringBody(e)
  /\ Has(UnmarshalBody(e.data.m.body.s), "code")
  /\ UnmarshalBody(e.data.m.body.s).code.tag = "number"

\* C1: a sebak-error line whose raw error has no data, or whose data has no
\* body, or whose data.body is not valid JSON, or whose embedded JSON has no
\* code, does not abort the run (the loop goes on to the next line) and
\* changes no nested error-code count.
C1_BestEffortExtraction ==
  [][ ( /\ pc = "line"
        /\ SEBAKErrorLine(s)
        /\ (NoData(RawOf(s)) \/ NoBody(RawOf(s)) \/ BodyWithoutCode(RawOf(s))) )
      => (pc' = "loop" /\ sebakErrors' = sebakErrors) ]_vars

\* 0, step, 2*step, ... up to the last multiple of step that is <= maxElapsed
DenseKeys(maxElapsed) == [i \in 1..((maxElapsed \div Step) + 1) |-> (i - 1) * Step]

\* C2: after the fill step the bucket keys are exactly the multiples of step
\* from 0 up to max_elapsed inclusive, ascending and without a gap, and no
\* bucket starts above max_elapsed.
C2_HistogramDensity ==
  pc \in {"report", "render"} =>
    /\ elsKeys = DenseKeys(agg.maxElapsedTime)
    /\ DOMAIN agg.els = Range(DenseKeys(agg.maxElapsedTime))

\* C3: processing a line whose type is not "payment" leaves the retained
\* payment sequence and the aggregates computed from it unchanged; only a
\* sebak-error line may change the nested error-code counts.
C3_NonPaymentExclusion ==
  [][ /\ (pc = "head" /\ ~IsType(headLine', "payment"))
         => (records' = records /\ sebakErrors' = sebakErrors /\ agg' = agg
             /\ k' = k /\ elsKeys' = elsKeys)
      /\ (pc = "line" /\ ~IsType(s, "payment"))
         => /\ records' = records /\ agg' = agg /\ k' = k /\ elsKeys' = elsKeys
            /\ (~IsType(s, "sebak-error") => sebakErrors' = sebakErrors) ]_vars

\* A sebak-error line with a nested code and a payment line have both been
\* processed: one record is retained, one code is counted.
C3_Witness ==
  /\ pc = "loop"
  /\ nread = 3
  /\ Len(records) = 1
  /\ DOMAIN sebakErrors # {}

\* C4: the input file is closed on every exit path: no terminal state is
\* reached with the handle still open.
C4_ClosedOnExit == pc \in Terminal => ~fileOpen

\* A control line with a time string (parseable or not), a create-accounts
\* line that decodes, or a sebak-error line that decodes and whose raw error
\* is one the nested-code extraction has to accept: no data, data without
\* body, a body without a code, or a body with a numeric code.
WellFormedOther(l) ==
  \/ (IsType(l, "started") \/ IsType(l, "ended")) /\ ControlTimeOK(l.d)
  \/ IsType(l, "create-accounts") /\ ~DecodeCreateAccounts(l.d).err
  \/ /\ SEBAKErrorLine(l)
     /\ \/ NoData(RawOf(l)) \/ NoBody(RawOf(l))
        \/ BodyWithoutCode(RawOf(l)) \/ BodyWithNumericCode(RawOf(l))

\* C5: a log with a valid config first and then only control, create-accounts
\* and well-formed sebak-error lines keeps the record list empty up to the end
\* of the file, and the run then prints "no records found" and exits with
\* status 1; with no payment record no report row is built or rendered.
C5_ZeroRecordTermination ==
  /\ [](records = <<>> => (Row = <<>> /\ "table" \notin Range(stdout)))
  /\ [][ /\ (pc = "line" /\ WellFormedOther(s)) => (pc' = "loop" /\ records' = records)
         /\ (pc = "loaded" /\ records = <<>>)
            => /\ pc' = "exited"
               /\ status' = 1
               /\ stdout' = <<"no records found">>
               /\ Row' = <<>> ]_vars

\* The line does not decode: not a JSON object, no type, a type outside the
\* known ones, or a strict decode of the matching record that fails.
DecodeFails(l) ==
  \/ l.json # "object"
  \/ ~Has(l.d, "type")
  \/ l.d.type.tag # "string"
  \/ l.d.type.s \notin KnownTypes
  \/ IsType(l, "config") /\ DecodeConfig(l.d).err
  \/ IsType(l, "create-accounts") /\ DecodeCreateAccounts(l.d).err
  \/ IsType(l, "payment") /\ DecodePayment(l.d).err
  \/ IsType(l, "sebak-error") /\ DecodeSEBAKError(l.d).err

\* C6: a line that fails to decode aborts the run at that line: the run ends
\* with a non-zero status, no later line is processed (an ended run takes no
\* step), the aggregates are not used and no report is emitted.
C6_FatalDecode ==
  [][ /\ pc \notin Terminal
      /\ (pc = "head" /\ DecodeFails(headLine')) => (Aborted' /\ records' = records)
      /\ (pc = "line" /\ DecodeFails(s))
         => (Aborted' /\ records' = records /\ s' = s /\ nread' = nread) ]_vars

\* A truncated line after a retained payment has ended the run with status 1.
C6_Witness ==
  /\ pc = "exited"
  /\ status = 1
  /\ Len(records) = 1
  /\ s = Invalid("{\"type\":\"payment\"")
  /\ Aborted

\* C7: whenever expected OPS and real OPS are computed, the total elapsed
\* time (time of the last payment minus started) is not zero.
C7_NonZeroTimeBase == pc = "render" => totalSeconds # Seconds(0)

\* C8: once started (ended) has been assigned from a control line, no later
\* control line changes it.
C8_BoundariesSetOnce ==
  [][ /\ started # ZeroTime => started' = started
      /\ ended # ZeroTime => ended' = ended ]_vars

WellFormedConfig(l) == IsType(l, "config") /\ ~DecodeConfig(l.d).err

\* C9: if the first line is not a well-formed config record the run ends
\* fatally before any other line is read, with nothing aggregated and no
\* report; the read loop and everything after it run only with the config
\* captured from line one.
C9_ConfigFirst ==
  /\ [](pc \in {"loop", "line", "loaded", "aggregate", "report", "render"}
          => /\ WellFormedConfig(headLine)
             /\ config = DecodeConfig(headLine.d).record)
  /\ [][ /\ (pc = "head" /\ ~WellFormedConfig(headLine'))
            => (Aborted' /\ nread' = 1 /\ records' = <<>> /\ sebakErrors' = EmptyMap)
         /\ pc \notin Terminal
         /\ pc \notin {"start", "head"} => (config' = config /\ headLine' = headLine) ]_vars

\* A "started" line came first: started was set and the run panicked after
\* that single line.
C9_Witness ==
  /\ pc = "panicked"
  /\ nread = 1
  /\ IsType(headLine, "started")
  /\ started # ZeroTime
  /\ Aborted

Count(m, key) == IF key \in DOMAIN m THEN m[key] ELSE 0

RECURSIVE SumMap(_)
SumMap(m) ==
  IF DOMAIN m = {} THEN 0
  ELSE LET key == CHOOSE x \in DOMAIN m : TRUE
       IN m[key] + SumMap([x \in DOMAIN m \ {key} |-> m[x]])

\* C10: every payment line processed is appended to the records, duplicates
\* included; every record aggregated raises the count of the one bucket
\* floor(elapsed/step)*step by 1 and, if and only if it carries an error,
\* error_count and the count of its error type by 1; the histogram counts
\* sum to the number of records aggregated, the error-type counts to
\* error_count, which is at most that number.
C10_NoDeduplication ==
  /\ [](/\ SumMap(agg.els) = k
        /\ SumMap(agg.errorTypes) = agg.countError
        /\ agg.countError <= k
        /\ k <= Len(records)
        /\ pc \in {"report", "render"} => k = Len(records))
  /\ [][ /\ (pc = "line" /\ pc' = "loop" /\ IsType(s, "payment"))
            => records' = Append(records, DecodePayment(s.d).record)
         /\ (pc = "aggregate" /\ k' = k + 1)
            => LET r == records[k']
                   b == (r.elapsed \div Step) * Step
                   e == IF r.error # JNull THEN 1 ELSE 0
               IN /\ \A x \in DOMAIN agg.els \cup DOMAIN agg'.els :
                       Count(agg'.els, x) = Count(agg.els, x) + IF x = b THEN 1 ELSE 0
                  /\ Count(agg'.els, b) = Count(agg.els, b) + 1
                  /\ agg'.countError = agg.countError + e
                  /\ \A x \in DOMAIN agg.errorTypes \cup DOMAIN agg'.errorTypes \cup {r.errorType} :
                       Count(agg'.errorTypes, x)
                         = Count(agg.errorTypes, x) + IF x = r.errorType THEN e ELSE 0 ]_vars

\* The same failed payment was fed twice: its bucket, error_count and its
\* error type all count 2.
C10_Witness ==
  /\ pc = "report"
  /\ Len(records) = 2
  /\ records[1] = records[2]
  /\ records[1].error # JNull
  /\ agg.els[Bucket(records[1].elapsed)] = 2
  /\ agg.countError = 2
  /\ agg.errorTypes[records[1].errorType] = 2

====
